---- MODULE Spec2Model ----
(***************************************************************************)
(* Model of OnigurumaRegExEngine (scintilla/oniguruma/scintilla/            *)
(* OnigurumaRegExEngine.cxx): the document regular-expression search        *)
(* (FindText), the compiled-pattern cache it keeps, and the replacement     *)
(* expander (SubstituteByPosition, convertReplExpr).                        *)
(*                                                                         *)
(* Text is modelled as sequences of byte values (Sequences of 0..255), so   *)
(* that character arithmetic (ch - '0', control bytes, hex digits) is the   *)
(* code's.  Document positions are 0-based as in the code; sequences are    *)
(* 1-based, so the byte at position p of a text t is t[p + 1].              *)
(***************************************************************************)
EXTENDS Integers, Sequences, FiniteSets, TLC

\* ------------------------------------------------------------------------
\* Characters
\* ------------------------------------------------------------------------

\* The characters the model writes down and, at the same index, their byte
\* values.
OrdChars ==
  <<" ", "$", "(", ")", "+", "-", ".", "0", "1", "2", "3", "4", "5", "9", "<",
    ">", "?", "A", "B", "[", "\\", "]", "^", "a", "b", "c", "e", "f", "n", "o", "r", "s", "t", "u",
    "v", "w", "x", "y", "{", "}">>

OrdCodes ==
  <<32, 36, 40, 41, 43, 45, 46, 48, 49, 50, 51, 52, 53, 57, 60,
    62, 63, 65, 66, 91, 92, 93, 94, 97, 98, 99, 101, 102, 110, 111, 114, 115, 116, 117,
    118, 119, 120, 121, 123, 125>>

Ord(c) == OrdCodes[CHOOSE i \in DOMAIN OrdChars : OrdChars[i] = c]

\* A string literal of the program, written as a tuple of characters.
Str(s) == [i \in 1..Len(s) |-> Ord(s[i])]

\* std::string::operator[]: the byte at 0-based index i; index length() is the
\* terminating NUL.
At(s, i) == IF i < Len(s) THEN s[i + 1] ELSE 0

\* ------------------------------------------------------------------------
\* Matcher library constants (oniguruma.h) and Scintilla constants
\* ------------------------------------------------------------------------
ONIG_OPTION_NONE == 0
ONIG_OPTION_DEFAULT == ONIG_OPTION_NONE
ONIG_OPTION_IGNORECASE == 1
ONIG_OPTION_EXTEND == 2
ONIG_OPTION_MULTILINE == 4
ONIG_OPTION_SINGLELINE == 8
ONIG_OPTION_FIND_LONGEST == 16
ONIG_OPTION_NEGATE_SINGLELINE == 64
ONIG_OPTION_NOTBOL == 512
ONIG_OPTION_NOTEOL == 1024
ONIG_SYN_OP_DOT_ANYCHAR == 2
ONIG_NORMAL == 0
ONIG_MISMATCH == -1
SCFIND_DOT_MATCH_ALL == 268435456
SC_EOL_CRLF == 0
SC_EOL_CR == 1
SC_EOL_LF == 2

\* Bitwise operations on non-negative integers.
RECURSIVE BitOr(_, _)
BitOr(a, b) ==
  IF a = 0 THEN b
  ELSE IF b = 0 THEN a
  ELSE (IF a % 2 = 1 \/ b % 2 = 1 THEN 1 ELSE 0) + 2 * BitOr(a \div 2, b \div 2)

RECURSIVE BitAnd(_, _)
BitAnd(a, b) ==
  IF a = 0 \/ b = 0 THEN 0
  ELSE (IF a % 2 = 1 /\ b % 2 = 1 THEN 1 ELSE 0) + 2 * BitAnd(a \div 2, b \div 2)

\* oniguruma.h: #define ONIG_OPTION_ON(options,regopt)  ((options) |= (regopt))
ONIG_OPTION_ON(options, regopt) == BitOr(options, regopt)

\* oniguruma.h: #define ONIG_OPTION_OFF(options,regopt) ((options) &= ~(regopt))
ONIG_OPTION_OFF(options, regopt) == options - BitAnd(options, regopt)

\* ------------------------------------------------------------------------
\* Option Resolver
\* ------------------------------------------------------------------------
SetSimpleOptions(eolMode, caseSensitive, forwardSearch, searchFlags) ==
  LET o0 == ONIG_OPTION_DEFAULT
      o1 == ONIG_OPTION_OFF(o0, ONIG_OPTION_EXTEND)
      o2 == ONIG_OPTION_OFF(o1, ONIG_OPTION_SINGLELINE)
      o3 == ONIG_OPTION_ON(o2, ONIG_OPTION_NEGATE_SINGLELINE)
      o4 == ONIG_OPTION_OFF(o3, ONIG_OPTION_FIND_LONGEST)
      o5 == IF BitAnd(searchFlags, SCFIND_DOT_MATCH_ALL) # 0
            THEN ONIG_OPTION_ON(ONIG_OPTION_ON(o4, ONIG_SYN_OP_DOT_ANYCHAR),
                                ONIG_OPTION_MULTILINE)
            ELSE ONIG_OPTION_OFF(ONIG_OPTION_OFF(o4, ONIG_SYN_OP_DOT_ANYCHAR),
                                 ONIG_OPTION_MULTILINE)
      o6 == IF caseSensitive
            THEN ONIG_OPTION_OFF(o5, ONIG_OPTION_IGNORECASE)
            ELSE ONIG_OPTION_ON(o5, ONIG_OPTION_IGNORECASE)
  IN  o6

\* ------------------------------------------------------------------------
\* Pattern Translator
\* ------------------------------------------------------------------------

\* std::string::find(from, pos): the first 0-based index >= pos at which from
\* occurs in source, or -1 (npos).
RECURSIVE StrFind(_, _, _)
StrFind(source, from, pos) ==
  IF pos + Len(from) > Len(source) THEN -1
  ELSE IF SubSeq(source, pos + 1, pos + Len(from)) = from THEN pos
  ELSE StrFind(source, from, pos + 1)

RECURSIVE ReplaceFrom(_, _, _, _)
ReplaceFrom(source, from, to, lastPos) ==
  LET findPos == StrFind(source, from, lastPos)
  IN  IF findPos = -1
      THEN SubSeq(source, lastPos + 1, Len(source))
      ELSE SubSeq(source, lastPos + 1, findPos) \o to
             \o ReplaceFrom(source, from, to, findPos + Len(from))

\* A replacement of the first occurrence only.
replaceFirst(source, from, to) ==
  IF StrFind(source, from, 0) = -1
  THEN source
  ELSE SubSeq(source, 1, StrFind(source, from, 0)) \o to
         \o SubSeq(source, StrFind(source, from, 0) + Len(from) + 1, Len(source))

replaceAll(source, from, to) == ReplaceFrom(source, from, to, 0)

\* A translation that leaves the pattern as the caller gave it.
translateRegExprPlain(regExprStr, wholeWord, wordStart) == regExprStr

\* OnigurumaRegExEngine::translateRegExpr.
translateRegExpr(regExprStr, wholeWord, wordStart) ==
  IF wholeWord \/ wordStart
  THEN LET t1 == Str(<<"\\", "b">>) \o regExprStr
           t2 == IF wholeWord THEN t1 \o Str(<<"\\", "b">>) ELSE t1
       IN  replaceAll(t2, Str(<<".">>), Str(<<"\\", "w">>))
  ELSE regExprStr

\* ------------------------------------------------------------------------
\* The matcher library (onig_new, onig_search, onig_name_to_backref_number).
\* Its code is outside the excerpt; it is modelled for the pattern language
\* the model uses: literals, '.', '\w', '\b', '^', '$', capture groups
\* '(' ... ')' and named groups '(?<name>' ... ')', without quantifiers.
\* ------------------------------------------------------------------------
Atom(t, c, g, name) == [c |-> c, t |-> t, g |-> g, name |-> name]

BadAtom == Atom("bad", 0, 0, <<>>)

IsAlnum(ch) == (ch \in 48..57) \/ (ch \in 65..90) \/ (ch \in 97..122)

\* \w of the matcher: letters, digits and the underscore.
IsWordChar(ch) == IsAlnum(ch) \/ ch = 95

ToLower(ch) == IF ch \in 65..90 THEN ch + 32 ELSE ch

\* The index of the first byte at or after i that is not alphanumeric.
RECURSIVE NameEnd(_, _)
NameEnd(p, i) == IF i < Len(p) /\ IsAlnum(At(p, i)) THEN NameEnd(p, i + 1) ELSE i

\* The pattern as a sequence of atoms; n is the number of groups opened so far,
\* stack the groups still open.  A syntax error yields a "bad" atom.
RECURSIVE Tokens(_, _, _, _)
Tokens(p, i, n, stack) ==
  IF i >= Len(p)
  THEN IF stack = <<>> THEN <<>> ELSE <<BadAtom>>
  ELSE
    LET c == At(p, i) IN
    IF c = Ord("\\")
    THEN IF i + 1 >= Len(p)
         THEN <<BadAtom>>
         ELSE LET d == At(p, i + 1)
                  a == IF d = Ord("b") THEN Atom("wordb", 0, 0, <<>>)
                       ELSE IF d = Ord("w") THEN Atom("word", 0, 0, <<>>)
                       ELSE Atom("lit", d, 0, <<>>)
              IN  <<a>> \o Tokens(p, i + 2, n, stack)
    ELSE IF c = Ord("(")
    THEN IF At(p, i + 1) = Ord("?")
         THEN LET k == NameEnd(p, i + 3) IN
              IF At(p, i + 2) = Ord("<") /\ k > i + 3 /\ At(p, k) = Ord(">")
              THEN <<Atom("open", 0, n + 1, SubSeq(p, i + 4, k))>>
                     \o Tokens(p, k + 1, n + 1, <<n + 1>> \o stack)
              ELSE <<BadAtom>>
         ELSE <<Atom("open", 0, n + 1, <<>>)>>
                \o Tokens(p, i + 1, n + 1, <<n + 1>> \o stack)
    ELSE IF c = Ord(")")
    THEN IF stack = <<>>
         THEN <<BadAtom>>
         ELSE <<Atom("close", 0, Head(stack), <<>>)>>
                \o Tokens(p, i + 1, n, Tail(stack))
    ELSE IF c = Ord(".") THEN <<Atom("any", 0, 0, <<>>)>> \o Tokens(p, i + 1, n, stack)
    ELSE IF c = Ord("^") THEN <<Atom("bol", 0, 0, <<>>)>> \o Tokens(p, i + 1, n, stack)
    ELSE IF c = Ord("$") THEN <<Atom("eol", 0, 0, <<>>)>> \o Tokens(p, i + 1, n, stack)
    ELSE <<Atom("lit", c, 0, <<>>)>> \o Tokens(p, i + 1, n, stack)

PatternAtoms(p) == Tokens(p, 0, 0, <<>>)

\* onig_new's verdict: ONIG_NORMAL exactly for a well-formed pattern.
AtomsValid(atoms) == \A k \in 1..Len(atoms) : atoms[k].t # "bad"

PatternValid(p) == AtomsValid(PatternAtoms(p))

NumGroups(atoms) == Cardinality({k \in 1..Len(atoms) : atoms[k].t = "open"})

\* The line-end bytes of the three encoding variants (UTF8, UTF8_CR, UTF8_CRLF),
\* selected by the end-of-line mode.
NewlineBytes(enc) ==
  IF enc = SC_EOL_LF THEN {10} ELSE IF enc = SC_EOL_CR THEN {13} ELSE {13, 10}

HasOpt(options, bit) == BitAnd(options, bit) # 0

\* One match attempt at position pos for atoms k.. of the pattern: reads bytes
\* below upper only; '\b', '^' and '$' look at the whole text.
RECURSIVE MatchFrom(_, _, _, _, _, _)
MatchFrom(atoms, k, text, pos, ctx, reg) ==
  IF k > Len(atoms)
  THEN [pos |-> pos, reg |-> reg, ok |-> TRUE]
  ELSE
    LET a == atoms[k]
        fail == [pos |-> pos, reg |-> reg, ok |-> FALSE]
        ch == At(text, pos)
        avail == pos < ctx.upper /\ pos < Len(text)
        wordBefore == pos > 0 /\ IsWordChar(At(text, pos - 1))
        wordAfter == pos < Len(text) /\ IsWordChar(ch)
    IN  CASE a.t = "lit" ->
               IF avail /\ (IF HasOpt(ctx.copts, ONIG_OPTION_IGNORECASE)
                            THEN ToLower(ch) = ToLower(a.c) ELSE ch = a.c)
               THEN MatchFrom(atoms, k + 1, text, pos + 1, ctx, reg) ELSE fail
          [] a.t = "any" ->
               IF avail /\ (HasOpt(ctx.copts, ONIG_OPTION_MULTILINE)
                            \/ ch \notin NewlineBytes(ctx.enc))
               THEN MatchFrom(atoms, k + 1, text, pos + 1, ctx, reg) ELSE fail
          [] a.t = "word" ->
               IF avail /\ IsWordChar(ch)
               THEN MatchFrom(atoms, k + 1, text, pos + 1, ctx, reg) ELSE fail
          [] a.t = "wordb" ->
               IF wordBefore # wordAfter
               THEN MatchFrom(atoms, k + 1, text, pos, ctx, reg) ELSE fail
          [] a.t = "bol" ->
               IF (pos = 0 /\ ~HasOpt(ctx.sopts, ONIG_OPTION_NOTBOL))
                  \/ (pos > 0 /\ pos < Len(text)
                      /\ At(text, pos - 1) \in NewlineBytes(ctx.enc))
               THEN MatchFrom(atoms, k + 1, text, pos, ctx, reg) ELSE fail
          [] a.t = "eol" ->
               IF (pos = Len(text) /\ ~HasOpt(ctx.sopts, ONIG_OPTION_NOTEOL))
                  \/ (pos < Len(text) /\ ch \in NewlineBytes(ctx.enc))
               THEN MatchFrom(atoms, k + 1, text, pos, ctx, reg) ELSE fail
          [] a.t = "open" ->
               MatchFrom(atoms, k + 1, text, pos, ctx,
                         [reg EXCEPT ![a.g + 1] = <<pos, pos>>])
          [] a.t = "close" ->
               MatchFrom(atoms, k + 1, text, pos, ctx,
                         [reg EXCEPT ![a.g + 1] = <<reg[a.g + 1][1], pos>>])
          [] OTHER -> fail

\* onig_region_init / onig_region_free(region, 0): a region without entries.
EmptyRegion == <<>>

\* ONIG_REGION_NOTPOS entries for group 0 and every capture group.
ClearedRegion(atoms) == [g \in 1..(NumGroups(atoms) + 1) |-> <<-1, -1>>]

\* The match of compiled pattern rx at exactly position s, ending at or below upper.
MatchAt(atoms, rx, text, s, upper, option) ==
  LET m == MatchFrom(atoms, 1, text, s,
                     [enc |-> rx.enc, upper |-> upper, copts |-> rx.opts,
                      sopts |-> option],
                     ClearedRegion(atoms))
  IN  [reg |-> [m.reg EXCEPT ![1] = <<s, m.pos>>], ok |-> m.ok]

\* The positions a search tries: from start up to (not including) range when
\* range > start, from start down to range otherwise.
SearchCandidates(start, range) ==
  IF range > start THEN start..(range - 1) ELSE range..start

\* The bound a match may not extend beyond.
SearchUpper(text, start, range) ==
  IF range > start THEN range
  ELSE IF start < Len(text) THEN start + 1 ELSE start

SearchHits(atoms, rx, text, start, range, option) ==
  {s \in SearchCandidates(start, range) :
     s >= 0 /\ s <= Len(text)
     /\ MatchAt(atoms, rx, text, s, SearchUpper(text, start, range), option).ok}

SetMin(S) == CHOOSE x \in S : \A y \in S : x <= y

SetMax(S) == CHOOSE x \in S : \A y \in S : x >= y

\* The result of a search that hit at s.
HitAt(atoms, rx, text, s, start, range, option) ==
  [result |-> s,
   region |-> MatchAt(atoms, rx, text, s, SearchUpper(text, start, range),
                      option).reg]

\* The first of the hits in scan order, with its region, or ONIG_MISMATCH.
FirstHit(atoms, rx, text, start, range, option, hits) ==
  IF hits = {}
  THEN [result |-> ONIG_MISMATCH, region |-> ClearedRegion(atoms)]
  ELSE HitAt(atoms, rx, text, IF range > start THEN SetMin(hits) ELSE SetMax(hits),
             start, range, option)

SearchAtoms(atoms, rx, text, start, range, option) ==
  FirstHit(atoms, rx, text, start, range, option,
           SearchHits(atoms, rx, text, start, range, option))

\* onig_search(rx, str, end, start, range, region, option) on the whole text.
onig_search(rx, text, start, range, option) ==
  SearchAtoms(PatternAtoms(rx.pat), rx, text, start, range, option)

\* onig_name_to_backref_number: the number of the group called name, or a
\* negative error code when the pattern has no such group.
NamedGroups(atoms, name) ==
  {k \in 1..Len(atoms) : atoms[k].t = "open" /\ atoms[k].name = name}

BackrefNumber(atoms, name) ==
  IF NamedGroups(atoms, name) = {} \/ name = <<>>
  THEN -217
  ELSE atoms[SetMax(NamedGroups(atoms, name))].g

onig_name_to_backref_number(rx, name) == BackrefNumber(PatternAtoms(rx.pat), name)


\* ------------------------------------------------------------------------
\* The document collaborator
\* ------------------------------------------------------------------------

\* Document::MovePositionOutsideChar on a document of single-byte characters:
\* no position is inside a character; out-of-range positions go to the ends.
MovePositionOutsideChar(doc, pos, moveDir, checkLineEnd) ==
  IF pos <= 0 THEN 0 ELSE IF pos >= Len(doc.text) THEN Len(doc.text) ELSE pos

\* doc->RangePointer(position, rangeLength) followed by a read of len bytes.
RangeBytes(doc, position, len) == SubSeq(doc.text, position + 1, position + len)

\* ------------------------------------------------------------------------
\* The engine
\* ------------------------------------------------------------------------
VARIABLES
  m_RegExprStrg,   \* the pattern text of the last compilation attempt
  m_CmplOptions,   \* the option bitset of the last compilation attempt
  m_RegExpr,       \* the matcher handle: [st, pat, opts, enc]
  m_Region,        \* the MatchRegion: a sequence of <<beg, end>>, group 0 first
  m_MatchPos,
  m_MatchLen,
  m_SubstBuffer,
  doc,             \* the document: [text, eolMode]
  last,            \* the last call: its arguments, results and library calls
  crashed,         \* the process died dereferencing an invalid handle
  alive,           \* the engine instance exists (constructed, not yet destroyed)
  others,          \* the number of other engine instances that exist
  onig_inited      \* the matcher library is initialized (process-wide)

vars == <<m_RegExprStrg, m_CmplOptions, m_RegExpr, m_Region, m_MatchPos,
          m_MatchLen, m_SubstBuffer, doc, last, crashed,
          alive, others, onig_inited>>

\* A handle: st is "null" (nullptr), "live" (owned, compiled from pat, opts, enc)
\* or "released" (the pointer outlived onig_free; pat, opts, enc are what the
\* released memory was compiled from).
NullRegex == [enc |-> 0, opts |-> 0, pat |-> <<>>, st |-> "null"]

LiveRegex(pat, opts, enc) == [enc |-> enc, opts |-> opts, pat |-> pat, st |-> "live"]

\* onig_free(reg) leaves the caller's pointer as it was: a non-null pointer now
\* dangles.
AfterFree(reg) == IF reg.st = "null" THEN reg ELSE [reg EXCEPT !.st = "released"]

\* What a use of a released handle can do: find the released memory as it was
\* left ("stale") or end the process ("crash").
UbOutcomes(e) ==
  IF e.m_RegExpr.st = "released" THEN {"stale", "crash"} ELSE {"stale"}

Engine ==
  [m_RegExprStrg |-> m_RegExprStrg, m_CmplOptions |-> m_CmplOptions,
   m_RegExpr |-> m_RegExpr, m_Region |-> m_Region, m_MatchPos |-> m_MatchPos,
   m_MatchLen |-> m_MatchLen, m_SubstBuffer |-> m_SubstBuffer]

\* The constructor's member initialisers and body.
NewEngine ==
  [m_RegExprStrg |-> <<>>, m_CmplOptions |-> ONIG_OPTION_DEFAULT,
   m_RegExpr |-> NullRegex, m_Region |-> EmptyRegion,
   m_MatchPos |-> ONIG_MISMATCH, m_MatchLen |-> 0, m_SubstBuffer |-> <<>>]

\* What a call reports besides the engine e: ret is the return value (for
\* SubstituteByPosition: 0 for a non-null result, -1 for nullptr), length the
\* value written to *length (when lenWritten), compiled whether the compilation
\* block ran, freed / searched / named the state of the handle passed to
\* onig_free / onig_search / onig_name_to_backref_number ("none": not called),
\* rx the handle passed to onig_search, effPattern and onigOptions the effective
\* pattern and options of the call, crash whether the call ended the process
\* (ret and length then mean nothing).
Outcome(e, ret, lenWritten, length, compiled, freed, searched, rx, effPattern, onigOptions) ==
  [rx |-> rx, e |-> e, ret |-> ret, lenWritten |-> lenWritten,
   length |-> length, compiled |-> compiled, freed |-> freed,
   searched |-> searched, effPattern |-> effPattern, onigOptions |-> onigOptions,
   named |-> "none", crash |-> FALSE]

Crash(o) == [o EXCEPT !.crash = TRUE]

\* FindText, lines 267-281: direction and the range searched.
FindForward(minPos, maxPos) == minPos <= maxPos

\* A backward search that starts at the bound the caller gave.
BackwardStartAtBound(d, minPos, increment) == minPos

\* FindText, line 275: where a backward search starts.
BackwardStart(d, minPos, increment) ==
  MovePositionOutsideChar(d, minPos - 1, increment, FALSE)

SearchRange(d, minPos, maxPos) ==
  LET findForward == FindForward(minPos, maxPos)
      increment == IF findForward THEN 1 ELSE -1
      minPos1 == MovePositionOutsideChar(d, minPos, increment, FALSE)
      maxPos1 == MovePositionOutsideChar(d, maxPos, increment, FALSE)
      minPos2 == IF ~findForward
                 THEN BackwardStart(d, minPos1, increment)
                 ELSE minPos1
      rangeBeg == IF findForward THEN minPos2 ELSE maxPos1
      rangeEnd == IF findForward THEN maxPos1 ELSE minPos2
  IN  [rangeBeg |-> rangeBeg, rangeEnd |-> rangeEnd, rangeLen |-> rangeEnd - rangeBeg]

\* FindText, lines 283-286: the option bitset of the call.
SearchOptions(d, minPos, maxPos, caseSensitive, searchFlags) ==
  LET r == SearchRange(d, minPos, maxPos)
      o1 == SetSimpleOptions(d.eolMode, caseSensitive, FindForward(minPos, maxPos),
                             searchFlags)
      o2 == ONIG_OPTION_ON(o1, IF r.rangeBeg > 0 THEN ONIG_OPTION_NOTBOL
                               ELSE ONIG_OPTION_NONE)
  IN  ONIG_OPTION_ON(o2, IF r.rangeEnd < Len(d.text) THEN ONIG_OPTION_NOTEOL
                         ELSE ONIG_OPTION_NONE)

\* A cache check that leaves the option bitset out.
bReCompileIgnoringOptions(e, onigOptions, sRegExprStrg) ==
  (e.m_RegExpr.st = "null") \/ (e.m_RegExprStrg # sRegExprStrg)

\* A cache check that does not look at the handle.
bReCompileIgnoringHandle(e, onigOptions, sRegExprStrg) ==
  (e.m_CmplOptions # onigOptions) \/ (e.m_RegExprStrg # sRegExprStrg)

\* FindText, line 291.
bReCompile(e, onigOptions, sRegExprStrg) ==
  (e.m_RegExpr.st = "null") \/ (e.m_CmplOptions # onigOptions)
    \/ (e.m_RegExprStrg # sRegExprStrg)

\* A compilation block that leaves the stored key as it was.
KeepKey(e, sRegExprStrg, onigOptions) == e

\* FindText, lines 294-296: the new cache key.
StoreKey(e, sRegExprStrg, onigOptions) ==
  [e EXCEPT !.m_RegExprStrg = sRegExprStrg, !.m_CmplOptions = onigOptions]

\* FindText, lines 293-315: the engine after the compilation block.  ok is FALSE
\* when the block returned -2.  fault "compile_throw" is an exception raised by
\* onig_new before it stores a handle.
CompileBlock(e, d, onigOptions, sRegExprStrg, fault) ==
  LET e1 == StoreKey(e, sRegExprStrg, onigOptions)
      freed == AfterFree(e.m_RegExpr)
  IN  IF fault = "compile_throw"
      THEN [ok |-> FALSE, e |-> [e1 EXCEPT !.m_RegExpr = freed]]
      ELSE IF ~PatternValid(e1.m_RegExprStrg)
      THEN [ok |-> FALSE, e |-> [e1 EXCEPT !.m_RegExpr = NullRegex]]
      ELSE [ok |-> TRUE,
            e |-> [e1 EXCEPT !.m_RegExpr =
                     LiveRegex(e1.m_RegExprStrg, e1.m_CmplOptions, d.eolMode)]]

\* A search that keeps the match of the call before.
KeepMatch(e) == e

\* FindText, lines 317-318.
ResetMatch(e) == [e EXCEPT !.m_MatchPos = ONIG_MISMATCH, !.m_MatchLen = 0]

\* A result check that takes no result for an error.
SearchErrorNever(result) == FALSE

\* FindText, line 341.
SearchError(result) == result < ONIG_MISMATCH

\* FindText, lines 317-318 and 329-330: the match state at the start of a search.
BeginSearch(e) == [ResetMatch(e) EXCEPT !.m_Region = EmptyRegion]

\* FindText, lines 332-335: the call of onig_search over the range r.  fault
\* "search_error" is a negative error code below ONIG_MISMATCH returned by it.
RunSearch(rx, d, r, findForward, onigOptions, fault) ==
  IF fault = "search_error"
  THEN [result |-> ONIG_MISMATCH - 1, region |-> ClearedRegion(PatternAtoms(rx.pat))]
  ELSE IF findForward
  THEN onig_search(rx, d.text, r.rangeBeg, r.rangeEnd, onigOptions)
  ELSE onig_search(rx, d.text, r.rangeEnd, r.rangeBeg, onigOptions)

\* FindText, lines 346-352: the match taken from the region.
StoreMatch(e, result, r) ==
  IF (result >= 0) /\ (r.rangeBeg <= r.rangeEnd)
  THEN [e EXCEPT !.m_MatchPos = e.m_Region[1][1],
                 !.m_MatchLen = e.m_Region[1][2] - e.m_Region[1][1]]
  ELSE e

\* FindText, lines 354-356: the return of a search that did not fail.
ReturnMatch(o, e) ==
  [o EXCEPT !.e = e, !.ret = e.m_MatchPos, !.lenWritten = TRUE,
            !.length = e.m_MatchLen]

\* FindText, lines 337-356: what the call makes of the result res of onig_search.
SearchResult(o, r, res) ==
  IF SearchError(res.result)
  THEN [o EXCEPT !.e.m_Region = res.region, !.ret = -3]
  ELSE ReturnMatch(o, StoreMatch([o.e EXCEPT !.m_Region = res.region],
                                 res.result, r))

\* FindText, lines 332-356, from the outcome o the search starts with.  fault
\* "search_throw" is an exception raised by onig_search.
SearchFrom(o, d, r, findForward, fault, ub) ==
  IF o.rx.st = "released" /\ ub = "crash"
  THEN Crash(o)
  ELSE IF fault = "search_throw"
  THEN [o EXCEPT !.ret = -3]
  ELSE SearchResult(o, r, RunSearch(o.rx, d, r, findForward, o.onigOptions, fault))

\* FindText, lines 317-356: the search and the result.
SearchBlock(e, d, minPos, maxPos, onigOptions, sRegExprStrg, fault, ub, compiled, freed) ==
  SearchFrom(Outcome(BeginSearch(e), 0, FALSE, 0, compiled, freed, e.m_RegExpr.st,
                     e.m_RegExpr, sRegExprStrg, onigOptions),
             d, SearchRange(d, minPos, maxPos), FindForward(minPos, maxPos),
             fault, ub)

\* An entry check that lets every pattern through.
EmptyPatternNever(pattern) == FALSE

\* FindText, line 259.  A null pattern is modelled as the empty one.
EmptyPattern(pattern) == ~(Len(pattern) > 0)

\* FindText, lines 293-356, from the result c of the compilation block; freed is
\* the state of the handle the block passed to onig_free.
AfterCompile(c, freed, d, minPos, maxPos, onigOptions, sRegExprStrg, fault, ub) ==
  IF freed = "released" /\ ub = "crash"
  THEN Crash(Outcome(c.e, 0, FALSE, 0, TRUE, freed, "none", NullRegex,
                     sRegExprStrg, onigOptions))
  ELSE IF ~c.ok
  THEN Outcome(c.e, -2, FALSE, 0, TRUE, freed, "none", NullRegex,
               sRegExprStrg, onigOptions)
  ELSE SearchBlock(c.e, d, minPos, maxPos, onigOptions, sRegExprStrg, fault, ub,
                   TRUE, freed)

\* FindText, lines 291-356: the cache check, the compilation and the search for
\* the effective pattern and options of the call.
FindCompiled(e, d, minPos, maxPos, onigOptions, sRegExprStrg, fault, ub) ==
  IF bReCompile(e, onigOptions, sRegExprStrg)
  THEN AfterCompile(CompileBlock(e, d, onigOptions, sRegExprStrg, fault),
                    e.m_RegExpr.st, d, minPos, maxPos, onigOptions, sRegExprStrg,
                    fault, ub)
  ELSE SearchBlock(e, d, minPos, maxPos, onigOptions, sRegExprStrg, fault, ub,
                   FALSE, "none")

\* OnigurumaRegExEngine::FindText.
\* onig_free of a released handle (line 300) and onig_search with one (lines
\* 333, 335) are undefined: ub is what they do.
FindText(e, d, minPos, maxPos, pattern, caseSensitive, word, wordStart, searchFlags, fault, ub) ==
  IF EmptyPattern(pattern)
  THEN Outcome(e, -1, TRUE, 0, FALSE, "none", "none", NullRegex, <<>>, 0)
  ELSE FindCompiled(e, d, minPos, maxPos,
                    SearchOptions(d, minPos, maxPos, caseSensitive, searchFlags),
                    translateRegExpr(pattern, word, wordStart), fault, ub)

\* ------------------------------------------------------------------------
\* Replacement Expander
\* ------------------------------------------------------------------------
IsDigit(ch) == ch >= 48 /\ ch <= 57

GetHexDigit(ch) ==
  IF ch >= 48 /\ ch <= 57 THEN ch - 48
  ELSE IF ch >= 65 /\ ch <= 70 THEN ch - 65 + 10
  ELSE IF ch >= 97 /\ ch <= 102 THEN ch - 97 + 10
  ELSE -1

\* WideCharToMultiByte(CP_UTF8, 0, val, -1, buf, ARRAYSIZE(val), ...) followed by
\* the copy of buf up to its first NUL (the first byte always): the UTF-8 bytes
\* of val that fit the two bytes the call is given.
HexBytes(val) ==
  IF val < 128 THEN <<val>>
  ELSE IF val < 2048 THEN <<192 + (val \div 64), 128 + (val % 64)>>
  ELSE <<224 + (val \div 4096), 128 + ((val \div 64) % 64)>>

\* convertReplExpr, lines 599-646: the \x / \u escape whose letter ch is at
\* index l.  Returns the bytes emitted and the index the for loop continues at.
HexEscape(replStr, l, ch) ==
  LET bShort == (ch = Ord("x"))
      h1 == GetHexDigit(At(replStr, l + 1))
      h2 == GetHexDigit(At(replStr, l + 2))
      h3 == GetHexDigit(At(replStr, l + 3))
      h4 == GetHexDigit(At(replStr, l + 4))
      n == IF h1 < 0 THEN 0
           ELSE IF h2 < 0 THEN 1
           ELSE IF bShort \/ h3 < 0 THEN 2
           ELSE IF h4 < 0 THEN 3 ELSE 4
      val == IF n = 0 THEN 0
             ELSE IF n = 1 THEN h1
             ELSE IF n = 2 THEN (h1 * 16 + h2) % 65536
             ELSE IF n = 3 THEN ((h1 * 16 + h2) * 16 + h3) % 65536
             ELSE (((h1 * 16 + h2) * 16 + h3) * 16 + h4) % 65536
  IN  [out |-> IF val # 0 THEN HexBytes(val) ELSE <<ch>>,
       next |-> (l + 1 + n) + 1]

RECURSIVE ConvertFrom(_, _)
ConvertFrom(replStr, i) ==
  IF i >= Len(replStr) THEN <<>>
  ELSE
    LET ch0 == At(replStr, i)
        ch == At(replStr, i + 1)
    IN  IF ch0 = Ord("\\")
        THEN IF ch >= Ord("1") /\ ch <= Ord("9")
             THEN <<Ord("$"), ch>> \o ConvertFrom(replStr, i + 2)
             ELSE CASE ch = Ord("a") -> <<7>> \o ConvertFrom(replStr, i + 2)
                    [] ch = Ord("b") -> <<27>> \o ConvertFrom(replStr, i + 2)
                    [] ch = Ord("f") -> <<12>> \o ConvertFrom(replStr, i + 2)
                    [] ch = Ord("n") -> <<10>> \o ConvertFrom(replStr, i + 2)
                    [] ch = Ord("r") -> <<13>> \o ConvertFrom(replStr, i + 2)
                    [] ch = Ord("t") -> <<9>> \o ConvertFrom(replStr, i + 2)
                    [] ch = Ord("v") -> <<11>> \o ConvertFrom(replStr, i + 2)
                    [] ch = Ord("\\") ->
                         <<Ord("\\"), Ord("\\")>> \o ConvertFrom(replStr, i + 2)
                    [] ch = Ord("x") \/ ch = Ord("u") ->
                         LET h == HexEscape(replStr, i + 1, ch)
                         IN  h.out \o ConvertFrom(replStr, h.next)
                    [] OTHER -> <<Ord("\\"), ch>> \o ConvertFrom(replStr, i + 2)
        ELSE <<ch0>> \o ConvertFrom(replStr, i + 1)

convertReplExpr(replStr) == ConvertFrom(replStr, 0)

\* SubstituteByPosition, lines 416-419 and 436-439: the document bytes of group
\* grpNum of the stored region.
GroupBytes(e, d, grpNum) ==
  LET rBeg == e.m_Region[grpNum + 1][1]
      len == e.m_Region[grpNum + 1][2] - rBeg
  IN  RangeBytes(d, rBeg, len)

\* A group reference that appends nothing.
NoGroup(e, d, grpNum) == <<>>

\* SubstituteByPosition, lines 413-419: what a numbered group reference appends.
NumberedGroup(e, d, grpNum) ==
  IF grpNum < Len(e.m_Region) THEN GroupBytes(e, d, grpNum) ELSE <<>>

\* SubstituteByPosition, lines 434-440: what a named group reference appends.
NamedGroup(e, d, grpNum) ==
  IF grpNum >= 0 /\ grpNum < Len(e.m_Region) THEN GroupBytes(e, d, grpNum) ELSE <<>>

\* A scan of the group name that does not advance.
SkipNothing(raw, k) == k

\* while (rawReplStrg[k] && IsCharAlphaNumericA(rawReplStrg[k])) { ++k; }
RECURSIVE SkipName(_, _)
SkipName(raw, k) ==
  IF At(raw, k) # 0 /\ IsAlnum(At(raw, k)) THEN SkipName(raw, k + 1) ELSE k

\* A second digit that counts whatever the number of region entries.
digit2ndAlways(c2, num_regs) == c2 >= Ord("0") /\ c2 <= Ord("9")

\* SubstituteByPosition, line 411: whether the byte after the first digit is
\* the second digit of the group index.
digit2nd(c2, num_regs) ==
  (c2 >= Ord("0") /\ c2 <= Ord("9")) /\ (num_regs > 10)

\* SubstituteByPosition, lines 403-451: the loop from index j on.  buf is what it
\* appends to m_SubstBuffer, named whether it calls onig_name_to_backref_number.
RECURSIVE ExpandFrom(_, _, _, _)
ExpandFrom(raw, j, e, d) ==
  IF j >= Len(raw) THEN [named |-> FALSE, buf |-> <<>>]
  ELSE
    LET c0 == At(raw, j)
        c1 == At(raw, j + 1)
        c2 == At(raw, j + 2)
        literal == LET r == ExpandFrom(raw, j + 1, e, d)
                   IN  [named |-> r.named, buf |-> <<c0>> \o r.buf]
    IN  IF c0 = Ord("$") \/ c0 = Ord("\\")
        THEN IF c1 >= Ord("0") /\ c1 <= Ord("9")
             THEN LET grpNum == IF digit2nd(c2, Len(e.m_Region))
                                THEN (c1 - Ord("0")) * 10 + (c2 - Ord("0"))
                                ELSE c1 - Ord("0")
                      r == ExpandFrom(raw, j + (IF digit2nd(c2, Len(e.m_Region))
                                                THEN 2 ELSE 1) + 1, e, d)
                  IN  [named |-> r.named,
                       buf |-> NumberedGroup(e, d, grpNum) \o r.buf]
             ELSE IF c0 = Ord("$")
             THEN LET k0 == IF c1 = Ord("+") /\ c2 = Ord("{") THEN j + 3
                            ELSE IF c1 = Ord("{") THEN j + 2 ELSE 0
                      k == SkipName(raw, k0)
                  IN  IF k0 > 0 /\ At(raw, k) = Ord("}")
                      THEN [named |-> TRUE,
                            buf |-> NamedGroup(e, d,
                                      onig_name_to_backref_number(
                                        e.m_RegExpr, SubSeq(raw, k0 + 1, k)))
                                      \o ExpandFrom(raw, k + 1, e, d).buf]
                      ELSE literal
             ELSE IF c1 = Ord("$") \/ c1 = Ord("\\")
             THEN LET r == ExpandFrom(raw, j + 2, e, d)
                  IN  [named |-> r.named, buf |-> <<c1>> \o r.buf]
             ELSE literal
        ELSE literal

\* OnigurumaRegExEngine::SubstituteByPosition.  text is the template (its length
\* is *length on entry).  ub decides what a name lookup through a released
\* handle does: "stale" (the released memory still reads as the old pattern) or
\* "crash"; a lookup through a null handle dereferences nullptr.
NameLookupDies(e, ub) ==
  e.m_RegExpr.st = "null" \/ (e.m_RegExpr.st = "released" /\ ub = "crash")

\* SubstituteByPosition, lines 401-455, given what the loop appends (buf) and
\* whether it looks a name up (named); dies: the lookup ends the process.
Substituted(e, buf, named, dies) ==
  [rx |-> NullRegex,
   e |-> [e EXCEPT !.m_SubstBuffer = IF dies THEN <<>> ELSE buf],
   ret |-> 0, lenWritten |-> TRUE, length |-> IF dies THEN 0 ELSE Len(buf),
   compiled |-> FALSE, freed |-> "none", searched |-> "none",
   effPattern |-> <<>>, onigOptions |-> 0,
   named |-> IF named THEN e.m_RegExpr.st ELSE "none", crash |-> dies]

Expanded(e, x, ub) ==
  Substituted(e, x.buf, x.named, x.named /\ NameLookupDies(e, ub))

SubstituteByPosition(e, d, text, ub) ==
  IF e.m_MatchPos < 0
  THEN Outcome(e, -1, TRUE, -1, FALSE, "none", "none", NullRegex, <<>>, 0)
  ELSE Expanded(e, ExpandFrom(convertReplExpr(text), 0, e, d), ub)


\* ------------------------------------------------------------------------
\* The state machine: one engine, one document, calls in any order
\* ------------------------------------------------------------------------

\* Consecutive failed compilations are counted up to this bound.
MaxFails == 2

DocTexts == {Str(<<"a", "A">>)}

EolModes == {SC_EOL_LF}

Patterns ==
  {<<>>, Str(<<"a">>), Str(<<"(", "a">>)}

\* caseSensitive, word, wordStart, searchFlags of a call.
FlagCombos ==
  {[caseSensitive |-> TRUE, searchFlags |-> 0, wordStart |-> FALSE, word |-> FALSE],
   [caseSensitive |-> FALSE, searchFlags |-> 0, wordStart |-> FALSE, word |-> FALSE],
   [caseSensitive |-> TRUE, searchFlags |-> 0, wordStart |-> FALSE, word |-> TRUE]}

\* The failures of the matcher library a call can meet.
Faults == {"compile_throw", "search_error", "search_throw"}

\* The ranges and flags of the calls during which the library fails.
FaultRanges(d) == {<<0, Len(d.text)>>}

FaultPatterns == {Str(<<"a">>)}

FaultFlags == {f \in FlagCombos : f.caseSensitive /\ ~f.word}

Templates ==
  {Str(<<"x">>), Str(<<"$", "{", "n", "}">>)}

Positions(d) == 0..Len(d.text)

\* The fault that took effect in a call with outcome o.
FaultTaken(o, fault) ==
  IF fault = "compile_throw"
  THEN IF o.compiled THEN fault ELSE "none"
  ELSE IF o.searched # "none" THEN fault ELSE "none"

\* The record of a call kept in last.  minPos and maxPos are the bounds the
\* caller passed (kept for a call that searched), text the pattern or the
\* template, failsBefore counts the calls right before it, consecutively, that
\* failed to compile a malformed pattern.
CallRecord(op, o, range, fault, text, flags, failsBefore) ==
  [text |-> text, ret |-> o.ret, lenWritten |-> o.lenWritten, length |-> o.length,
   compiled |-> o.compiled, freed |-> o.freed, searched |-> o.searched,
   effPattern |-> o.effPattern, onigOptions |-> o.onigOptions,
   named |-> o.named, minPos |-> range[1], maxPos |-> range[2],
   fault |-> fault, op |-> op, flags |-> flags, failsBefore |-> failsBefore]

NoFlags ==
  [caseSensitive |-> FALSE, searchFlags |-> 0, wordStart |-> FALSE, word |-> FALSE]

NoRange == <<0, 0>>

NoCall ==
  CallRecord("new", Outcome(NewEngine, 0, FALSE, 0, FALSE, "none", "none",
                            NullRegex, <<>>, 0),
             NoRange, "none", <<>>, NoFlags, 0)

SyntaxFailure(c) ==
  c.op = "FindText" /\ c.ret = -2 /\ c.fault = "none"

FailsAfter(c) ==
  IF SyntaxFailure(c)
  THEN (IF c.failsBefore < MaxFails THEN c.failsBefore + 1 ELSE MaxFails)
  ELSE 0

SetEngine(e) ==
  /\ m_RegExprStrg' = e.m_RegExprStrg
  /\ m_CmplOptions' = e.m_CmplOptions
  /\ m_RegExpr' = e.m_RegExpr
  /\ m_Region' = e.m_Region
  /\ m_MatchPos' = e.m_MatchPos
  /\ m_MatchLen' = e.m_MatchLen
  /\ m_SubstBuffer' = e.m_SubstBuffer

Init ==
  /\ m_RegExprStrg = NewEngine.m_RegExprStrg
  /\ m_CmplOptions = NewEngine.m_CmplOptions
  /\ m_RegExpr = NewEngine.m_RegExpr
  /\ m_Region = NewEngine.m_Region
  /\ m_MatchPos = NewEngine.m_MatchPos
  /\ m_MatchLen = NewEngine.m_MatchLen
  /\ m_SubstBuffer = NewEngine.m_SubstBuffer
  /\ doc \in [text : DocTexts, eolMode : EolModes]
  /\ last = NoCall
  /\ crashed = FALSE
  /\ alive = TRUE
  /\ others = 0
  /\ onig_inited = TRUE

\* The engine and the call record after a FindText call.
FindTextCall(pattern, minPos, maxPos, f, fault, ub) ==
  \E o \in {FindText(Engine, doc, minPos, maxPos, pattern, f.caseSensitive,
                     f.word, f.wordStart, f.searchFlags, fault, ub)} :
    /\ SetEngine(o.e)
    /\ last' = CallRecord("FindText", o,
                          IF o.searched # "none"
                          THEN <<minPos, maxPos>> ELSE NoRange,
                          FaultTaken(o, fault), pattern, f, FailsAfter(last))
    /\ crashed' = o.crash
    /\ UNCHANGED <<doc, alive, others, onig_inited>>

\* A caller's FindText call during which the matcher library does not fail.
DoFindText ==
  /\ ~crashed
  /\ \E pattern \in Patterns, minPos \in Positions(doc), maxPos \in Positions(doc),
        f \in FlagCombos, ub \in UbOutcomes(Engine) :
       FindTextCall(pattern, minPos, maxPos, f, "none", ub)

\* A caller's FindText call during which the matcher library fails.
DoFindTextFault ==
  /\ ~crashed
  /\ \E pattern \in FaultPatterns, r \in FaultRanges(doc), f \in FaultFlags,
        fault \in Faults, ub \in UbOutcomes(Engine) :
       FindTextCall(pattern, r[1], r[2], f, fault, ub)

\* A caller's SubstituteByPosition call.
DoSubstitute ==
  /\ ~crashed
  /\ \E text \in Templates, ub \in UbOutcomes(Engine) :
       \E o \in {SubstituteByPosition(Engine, doc, text, ub)} :
         /\ SetEngine(o.e)
         /\ last' = CallRecord("SubstituteByPosition", o, NoRange, "none",
                               text, NoFlags, FailsAfter(last))
         /\ crashed' = o.crash
  /\ UNCHANGED <<doc, alive, others, onig_inited>>

Next == DoFindText \/ DoFindTextFault \/ DoSubstitute

Spec == Init /\ [][Next]_vars

\* ------------------------------------------------------------------------
\* Properties
\* ------------------------------------------------------------------------

\* The last call is a FindText call that returned to its caller.
FindTextReturned == last.op = "FindText" /\ ~crashed

\* What onig_search gives for the recorded call c through handle rx.
SearchThrough(rx, c) ==
  LET r == SearchRange(doc, c.minPos, c.maxPos)
  IN  IF FindForward(c.minPos, c.maxPos)
      THEN onig_search(rx, doc.text, r.rangeBeg, r.rangeEnd, c.onigOptions)
      ELSE onig_search(rx, doc.text, r.rangeEnd, r.rangeBeg, c.onigOptions)

\* The search of the recorded call c through the handle the engine holds (a
\* search leaves the handle as it is).
HandleSearch(c) == SearchThrough(m_RegExpr, c)

\* The search of the recorded call c through a pattern compiled from the
\* call's own effective pattern and options.
CallSearch(c) ==
  SearchThrough(LiveRegex(c.effPattern, c.onigOptions, doc.eolMode), c)

\* The four kinds of outcome of a FindText call, told from what happened in it.
CompileFailed(c) ==
  c.compiled /\ c.searched = "none"
    /\ (c.fault = "compile_throw" \/ ~PatternValid(c.effPattern))

RuntimeFailed(c) ==
  c.searched # "none" /\ c.fault \in {"search_error", "search_throw"}

SearchedWithoutFailure(c) == c.searched # "none" /\ c.fault = "none"

NotFound(c) ==
  c.text = <<>>
    \/ (SearchedWithoutFailure(c) /\ HandleSearch(c).result = ONIG_MISMATCH)

Matched(c) == SearchedWithoutFailure(c) /\ HandleSearch(c).result >= 0

\* C1: a FindText call that returns gives -1 exactly when the pattern is empty
\* or the matcher found no match, -2 exactly when the compilation block failed,
\* -3 exactly when the search call failed at run time, and the start of the
\* match (>= 0) exactly when the matcher found one.
C1_DistinctSentinels ==
  FindTextReturned =>
    /\ last.ret \in {-1, -2, -3} \/ last.ret >= 0
    /\ (last.ret = -1) <=> NotFound(last)
    /\ (last.ret = -2) <=> CompileFailed(last)
    /\ (last.ret = -3) <=> RuntimeFailed(last)
    /\ (last.ret >= 0) <=> Matched(last)
    /\ Matched(last) => last.ret = HandleSearch(last).result

\* C1: a search that failed at run time has returned -3, on an engine that
\* holds a compiled pattern.
C1_Witness ==
  /\ FindTextReturned
  /\ RuntimeFailed(last)
  /\ last.ret = -3
  /\ m_RegExpr.st = "live"

\* The length of the match the search of call c through rx gives.
MatchLength(res) == res.region[1][2] - res.region[1][1]

\* C2: a fault-free FindText call with a malformed pattern returns -2 without
\* searching; a fault-free call with a well-formed pattern that follows one or
\* more such calls in a row compiles again, searches through a live handle and,
\* when its pattern occurs in the range, returns that match.
C2_RecoversAfterSyntaxError ==
  /\ (FindTextReturned /\ last.fault = "none" /\ last.text # <<>>
        /\ ~PatternValid(last.effPattern)) =>
       (last.ret = -2 /\ last.searched = "none")
  /\ (FindTextReturned /\ last.fault = "none" /\ last.text # <<>>
        /\ last.failsBefore >= 1 /\ PatternValid(last.effPattern)) =>
       /\ last.compiled
       /\ last.searched = "live"
       /\ CallSearch(last).result >= 0 =>
            /\ last.ret = CallSearch(last).result
            /\ last.lenWritten
            /\ last.length = MatchLength(CallSearch(last))

\* C2: after MaxFails malformed patterns in a row, a call with a well-formed
\* pattern has compiled and returned a match of one byte.
C2_Witness ==
  /\ FindTextReturned
  /\ last.failsBefore = MaxFails
  /\ last.compiled
  /\ last.ret >= 0
  /\ last.length = 1

\* C3: no call passes a null or a released handle to onig_search or to
\* onig_name_to_backref_number.
C3_HandleValidWhenUsed ==
  /\ last.searched \in {"none", "live"}
  /\ last.named \in {"none", "live"}

\* C4: a SubstituteByPosition call that follows a FindText call which returned
\* no match reports failure: a null result and length -1.
C4_NoMatchThenSubstituteFails ==
  [][(last.op = "FindText" /\ last.ret < 0 /\ last'.op = "SubstituteByPosition")
       => (~crashed' /\ last'.ret = -1 /\ last'.length = -1)]_vars

\* C5: on a new engine, and after a FindText call that returned -1,
\* SubstituteByPosition returns a null result, writes length -1 and leaves the
\* substitution buffer as it was.
C5_SubstituteWithoutMatch ==
  [][(last'.op = "SubstituteByPosition"
        /\ (last.op = "new" \/ (last.op = "FindText" /\ last.ret = -1)))
       => (~crashed' /\ last'.ret = -1 /\ last'.length = -1
           /\ m_SubstBuffer' = m_SubstBuffer)]_vars

\* Two FindText calls in a row with the same pattern and the same flags.
SamePatternAndFlags(c1, c2) ==
  /\ c1.op = "FindText" /\ c2.op = "FindText"
  /\ c1.text = c2.text
  /\ c1.flags = c2.flags

\* Two FindText calls in a row that differ in caseSensitive only (the ranges
\* aside).
DifferInCaseSensitive(c1, c2) ==
  /\ c1.op = "FindText" /\ c2.op = "FindText"
  /\ c1.text = c2.text
  /\ c1.flags.caseSensitive # c2.flags.caseSensitive
  /\ [c1.flags EXCEPT !.caseSensitive = TRUE]
       = [c2.flags EXCEPT !.caseSensitive = TRUE]

\* The range-boundary options of a call.
BoundaryOptions(c) ==
  <<HasOpt(c.onigOptions, ONIG_OPTION_NOTBOL),
    HasOpt(c.onigOptions, ONIG_OPTION_NOTEOL)>>

\* C6 as stated: the second of two FindText calls in a row with the same
\* pattern and flags does not compile, whatever the two ranges; the second of
\* two that differ in caseSensitive compiles.
C6_AsStated ==
  [][/\ SamePatternAndFlags(last, last') => ~last'.compiled
     /\ DifferInCaseSensitive(last, last') => last'.compiled]_vars

\* C6: the second of two FindText calls in a row with the same non-empty
\* pattern, the same flags and ranges that give the same boundary options does
\* not compile when the first call left a handle; the second of two with the
\* same non-empty pattern that differ in caseSensitive compiles.
C6_CacheHitAndMiss ==
  [][/\ (SamePatternAndFlags(last, last') /\ last'.text # <<>>
           /\ BoundaryOptions(last) = BoundaryOptions(last')
           /\ m_RegExpr.st # "null") => ~last'.compiled
     /\ (DifferInCaseSensitive(last, last') /\ last'.text # <<>>)
          => last'.compiled]_vars

\* C6: a call has searched through the handle an earlier call compiled.
C6_Witness ==
  /\ FindTextReturned
  /\ last.text # <<>>
  /\ ~last.compiled
  /\ last.searched = "live"
  /\ last.ret >= 0

\* C7: when FindText has called onig_search, the stored key is the call's
\* effective pattern and options and the handle was compiled from them.
C7_SearchUsesCurrentKey ==
  (last.op = "FindText" /\ last.searched # "none") =>
    /\ m_RegExprStrg = last.effPattern
    /\ m_CmplOptions = last.onigOptions
    /\ m_RegExpr = LiveRegex(last.effPattern, last.onigOptions, doc.eolMode)

\* C8: FindText with an empty pattern returns -1, writes length 0, neither
\* compiles nor searches, and leaves handle, stored pattern and stored options
\* as they were.
C8_EmptyPatternIsNotFound ==
  [][(last'.op = "FindText" /\ last'.text = <<>>) =>
       /\ ~crashed'
       /\ last'.ret = -1 /\ last'.lenWritten /\ last'.length = 0
       /\ ~last'.compiled /\ last'.searched = "none"
       /\ m_RegExpr' = m_RegExpr
       /\ m_RegExprStrg' = m_RegExprStrg
       /\ m_CmplOptions' = m_CmplOptions]_vars

\* C8: an empty pattern has been answered on an engine that holds a compiled
\* pattern.
C8_Witness ==
  /\ FindTextReturned
  /\ last.text = <<>>
  /\ last.ret = -1
  /\ m_RegExpr.st = "live"
  /\ m_RegExprStrg # <<>>

\* C9: a fault-free FindText call that searched through a live handle for a
\* well-formed pattern without a match in the range returns -1 and writes
\* length 0, forward and backward.
C9_NoMatchIsNotFound ==
  (FindTextReturned /\ last.fault = "none" /\ last.searched = "live"
     /\ PatternValid(last.effPattern)
     /\ CallSearch(last).result = ONIG_MISMATCH) =>
    (last.ret = -1 /\ last.lenWritten /\ last.length = 0)

\* C9: a backward search has found nothing on an engine that had matched and
\* substituted before.
C9_Witness ==
  /\ FindTextReturned
  /\ last.searched = "live"
  /\ last.minPos > last.maxPos
  /\ last.ret = -1
  /\ last.length = 0
  /\ m_SubstBuffer # <<>>

NoLineAnchors(p) ==
  LET atoms == PatternAtoms(p)
  IN  \A k \in 1..Len(atoms) : atoms[k].t \notin {"bol", "eol"}

\* The occurrences of call c's pattern between the bounds a < b, told without
\* regard to direction: the starts in a .. b-1 of matches that end at or before b.
Occurrences(c, a, b) ==
  LET rx == LiveRegex(c.effPattern,
                      SetSimpleOptions(doc.eolMode, c.flags.caseSensitive, TRUE,
                                       c.flags.searchFlags),
                      doc.eolMode)
      atoms == PatternAtoms(c.effPattern)
  IN  {s \in a..(b - 1) : MatchAt(atoms, rx, doc.text, s, b, rx.opts).ok}

OccurrenceLength(c, s, b) ==
  LET rx == LiveRegex(c.effPattern,
                      SetSimpleOptions(doc.eolMode, c.flags.caseSensitive, TRUE,
                                       c.flags.searchFlags),
                      doc.eolMode)
      m == MatchAt(PatternAtoms(c.effPattern), rx, doc.text, s, b, rx.opts)
  IN  m.reg[1][2] - m.reg[1][1]

LowBound(c) == IF c.minPos <= c.maxPos THEN c.minPos ELSE c.maxPos

HighBound(c) == IF c.minPos <= c.maxPos THEN c.maxPos ELSE c.minPos

InitOn(d) ==
  /\ m_RegExprStrg = NewEngine.m_RegExprStrg
  /\ m_CmplOptions = NewEngine.m_CmplOptions
  /\ m_RegExpr = NewEngine.m_RegExpr
  /\ m_Region = NewEngine.m_Region
  /\ m_MatchPos = NewEngine.m_MatchPos
  /\ m_MatchLen = NewEngine.m_MatchLen
  /\ m_SubstBuffer = NewEngine.m_SubstBuffer
  /\ doc = d
  /\ last = NoCall
  /\ crashed = FALSE
  /\ alive = TRUE
  /\ others = 0
  /\ onig_inited = TRUE

WordText ==
  Str(<<"c", "o", "n", "c", "a", "t", "e", "n", "a", "t", "e", " ",
        "c", "a", "t", " ", "s", "c", "a", "t">>)

WordPattern == Str(<<"c", "a", "t">>)

\* The bounds of the calls: the document ends and the positions at and around
\* the three occurrences of "cat" (at 3, 12 and 17).
WordPositions == {0, 3, 12, 13, 15, 17, Len(WordText)}

WordFlags(word) ==
  [caseSensitive |-> TRUE, searchFlags |-> 0, wordStart |-> FALSE, word |-> word]

WordInit == InitOn([eolMode |-> SC_EOL_LF, text |-> WordText])

\* A caller's FindText call for "cat" with word = true.
DoWordFind ==
  /\ ~crashed
  /\ \E minPos \in WordPositions, maxPos \in WordPositions, ub \in UbOutcomes(Engine) :
       FindTextCall(WordPattern, minPos, maxPos, WordFlags(TRUE), "none", ub)

\* A caller's FindText call for "cat" with word = false.
DoPlainFind ==
  /\ ~crashed
  /\ \E minPos \in WordPositions, maxPos \in WordPositions, ub \in UbOutcomes(Engine) :
       FindTextCall(WordPattern, minPos, maxPos, WordFlags(FALSE), "none", ub)

WordNext == DoWordFind \/ DoPlainFind

WordSpec == WordInit /\ [][WordNext]_vars

\* The last call is a returned FindText call for "cat" with word = true.
WordCall ==
  FindTextReturned /\ last.text = WordPattern /\ last.flags.word

WholeDocument(c) ==
  <<c.minPos, c.maxPos>> \in {<<0, Len(doc.text)>>, <<Len(doc.text), 0>>}

\* C11: a whole-word search for "cat" in "concatenate cat scat" returns nothing
\* but the standalone token at position 12 with length 3 - never the
\* occurrences at 3 (in "concatenate") and 17 (in "scat") - and over the whole
\* document, forward (0, 20) and backward (20, 0), it returns that token.
C11_WholeWordOnly ==
  WordCall =>
    /\ last.ret \in {-1, 12}
    /\ last.lenWritten
    /\ last.length = (IF last.ret = 12 THEN 3 ELSE 0)
    /\ WholeDocument(last) => last.ret = 12

C11_Witness ==
  WordCall /\ last.minPos = Len(doc.text) /\ last.maxPos = 0 /\ last.ret = 12
    /\ last.length = 3

\* ------------------------------------------------------------------------
\* Replacement templates: one engine on the document "ab", patterns with and
\* without capture groups
\* ------------------------------------------------------------------------

\* Two capture groups, the second one named n.
GroupPattern == Str(<<"(", "a", ")", "(", "?", "<", "n", ">", "b", ")">>)

GroupPatterns == {GroupPattern, Str(<<"b">>)}

DollarDollar == Str(<<"$", "$">>)

BackslashBackslash == Str(<<"\\", "\\">>)

BracketedGroups == Str(<<"[", "$", "1", "-", "$", "2", "]">>)

BackslashN == Str(<<"\\", "n">>)

ByName == Str(<<"$", "{", "n", "}">>)

ByPlusName == Str(<<"$", "+", "{", "n", "}">>)

ByNumber == Str(<<"$", "2">>)

UnknownName == Str(<<"$", "{", "x", "}", "y">>)

GroupTemplates ==
  {DollarDollar, BackslashBackslash, BracketedGroups, BackslashN, ByName,
   ByPlusName, ByNumber, UnknownName}

SubstInit ==
  InitOn([eolMode |-> SC_EOL_LF, text |-> Str(<<"a", "b">>)])

\* A caller's FindText call for one of the patterns.
DoGroupFind ==
  /\ ~crashed
  /\ \E pattern \in GroupPatterns, minPos \in Positions(doc),
        maxPos \in Positions(doc), ub \in UbOutcomes(Engine) :
       FindTextCall(pattern, minPos, maxPos, WordFlags(FALSE), "none", ub)

\* The engine and the call record after a SubstituteByPosition call.
SubstituteCall(text, ub) ==
  \E o \in {SubstituteByPosition(Engine, doc, text, ub)} :
    /\ SetEngine(o.e)
    /\ last' = CallRecord("SubstituteByPosition", o, NoRange, "none", text,
                          NoFlags, FailsAfter(last))
    /\ crashed' = o.crash
    /\ UNCHANGED <<doc, alive, others, onig_inited>>

\* A caller's SubstituteByPosition call with one of the templates.
DoTemplate ==
  /\ ~crashed
  /\ \E text \in GroupTemplates, ub \in UbOutcomes(Engine) : SubstituteCall(text, ub)

SubstNext == DoGroupFind \/ DoTemplate

SubstSpec == SubstInit /\ [][SubstNext]_vars

\* The last call is a SubstituteByPosition call that returned its buffer.
SubstituteReturned(text) ==
  last.op = "SubstituteByPosition" /\ ~crashed /\ last.ret = 0 /\ last.text = text

\* The buffer and the length the last call gave are bytes and their number.
Gave(bytes) == m_SubstBuffer = bytes /\ last.length = Len(bytes)

\* The document bytes of group g of the stored match.
MatchedGroup(g) ==
  SubSeq(doc.text, m_Region[g + 1][1] + 1, m_Region[g + 1][2])

\* C12: after a successful match the template "$$" gives the single byte '$'
\* and the template of two backslashes the single byte '\'.
C12_EscapedMetacharacters ==
  /\ SubstituteReturned(DollarDollar) => Gave(Str(<<"$">>))
  /\ SubstituteReturned(BackslashBackslash) => Gave(Str(<<"\\">>))

\* The stored match is one of a pattern with two capture groups.
TwoGroupMatch == m_MatchPos >= 0 /\ Len(m_Region) = 3

\* C13: after a successful match with two capture groups the template
\* "[$1-$2]" gives "[" + group 1 + "-" + group 2 + "]" and its length, and
\* the template backslash-n gives exactly one newline byte.
C13_GroupsAndNewline ==
  TwoGroupMatch =>
    /\ SubstituteReturned(BracketedGroups) =>
         Gave(Str(<<"[">>) \o MatchedGroup(1) \o Str(<<"-">>) \o MatchedGroup(2)
                \o Str(<<"]">>))
    /\ SubstituteReturned(BackslashN) => Gave(<<10>>)

C13_Witness ==
  TwoGroupMatch /\ SubstituteReturned(BracketedGroups)
    /\ m_SubstBuffer = Str(<<"[", "a", "-", "b", "]">>)

\* The stored match was made through the live handle of the pattern whose
\* group 2 is named n.
NamedGroupMatch ==
  TwoGroupMatch /\ m_RegExpr = LiveRegex(GroupPattern, m_CmplOptions, doc.eolMode)

\* C14: after a successful match of a pattern whose group 2 is named n, the
\* templates "${n}" and "$+{n}" give the bytes and length that "$2" gives, the
\* bytes of group 2; a name that does not resolve contributes nothing and the
\* scan goes on after the closing brace ("${x}y" gives "y").
C14_NamedLikeNumbered ==
  NamedGroupMatch =>
    /\ SubstituteReturned(ByNumber) => Gave(MatchedGroup(2))
    /\ SubstituteReturned(ByName) => Gave(MatchedGroup(2))
    /\ SubstituteReturned(ByPlusName) => Gave(MatchedGroup(2))
    /\ SubstituteReturned(UnknownName) => Gave(Str(<<"y">>))

C14_Witness ==
  NamedGroupMatch /\ SubstituteReturned(ByPlusName) /\ m_SubstBuffer = Str(<<"b">>)
    /\ last.named = "live"

\* ------------------------------------------------------------------------
\* Repeated calls: every FindText call may be followed by the same call again
\* ------------------------------------------------------------------------

\* The engine and the call record after a FindText call; the record keeps the
\* bounds the caller passed, whatever the call did.
RepeatableCall(op, pattern, minPos, maxPos, f, fault, ub) ==
  \E o \in {FindText(Engine, doc, minPos, maxPos, pattern, f.caseSensitive,
                     f.word, f.wordStart, f.searchFlags, fault, ub)} :
    /\ SetEngine(o.e)
    /\ last' = CallRecord(op, o, <<minPos, maxPos>>, FaultTaken(o, fault),
                          pattern, f, FailsAfter(last))
    /\ crashed' = o.crash
    /\ UNCHANGED <<doc, alive, others, onig_inited>>

\* The ranges of the calls: the whole document forward and backward, a part of
\* it, and an empty range.
RepeatRanges(d) == {<<0, Len(d.text)>>, <<Len(d.text), 0>>, <<1, Len(d.text)>>, <<0, 0>>}

\* A caller's FindText call.
DoCall ==
  /\ ~crashed
  /\ \E pattern \in Patterns, r \in RepeatRanges(doc), f \in FlagCombos,
        ub \in UbOutcomes(Engine) :
       RepeatableCall("FindText", pattern, r[1], r[2], f, "none", ub)

\* A caller's FindText call during which onig_new raises an exception.
DoCallFault ==
  /\ ~crashed
  /\ \E pattern \in FaultPatterns, r \in FaultRanges(doc), f \in FaultFlags,
        ub \in UbOutcomes(Engine) :
       RepeatableCall("FindText", pattern, r[1], r[2], f, "compile_throw", ub)

\* The call before, made again with the same arguments.
DoAgain ==
  /\ ~crashed
  /\ last.op \in {"FindText", "FindTextAgain"}
  /\ last.fault = "none"
  /\ \E ub \in UbOutcomes(Engine) :
       RepeatableCall("FindTextAgain", last.text, last.minPos, last.maxPos,
                      last.flags, "none", ub)

RepeatInit == InitOn([eolMode |-> SC_EOL_LF, text |-> Str(<<"a", "A">>)])

RepeatNext == DoCall \/ DoCallFault \/ DoAgain

RepeatSpec == RepeatInit /\ [][RepeatNext]_vars

\* C15: a FindText call made again right away with the same arguments on the
\* unchanged document returns what the first returned and writes the same
\* length (or, like the first, none), whatever state the first call started
\* in.
C15_SameCallSameResult ==
  [][(last'.op = "FindTextAgain" /\ ~crashed')
       => /\ last'.ret = last.ret
          /\ last'.lenWritten = last.lenWritten
          /\ last'.length = last.length]_vars

C15_Witness ==
  /\ last.op = "FindTextAgain"
  /\ ~crashed
  /\ last.ret = 1
  /\ last.failsBefore = 0
  /\ ~last.compiled

\* ------------------------------------------------------------------------
\* The single-shot entry point (SimpleRegExEngine::Find, OnigRegExFind)
\* ------------------------------------------------------------------------

\* Find, lines 769-792: the value returned for the result res of onig_search.
SimpleResult(res) ==
  IF res.result < ONIG_MISMATCH THEN -3
  ELSE IF res.result >= 0 THEN res.region[1][1]
  ELSE ONIG_MISMATCH

\* Find, lines 765-766: the search of the whole text from its beginning.
\* fault "search_error" is an error code below ONIG_MISMATCH returned by
\* onig_search.
SimpleSearch(rx, document, fault) ==
  IF fault = "search_error"
  THEN [result |-> ONIG_MISMATCH - 1, region |-> ClearedRegion(PatternAtoms(rx.pat))]
  ELSE onig_search(rx, document, 0, Len(document), rx.opts)

\* Find, lines 741-798: the try block.  fault "compile_throw" is an exception
\* raised by onig_new, "search_throw" one raised by onig_search.
SimpleTry(pattern, document, m_Options, eolMode, fault) ==
  IF fault = "compile_throw" THEN -666
  ELSE IF ~PatternValid(pattern) THEN -111
  ELSE IF fault = "search_throw" THEN -666
  ELSE SimpleResult(SimpleSearch(LiveRegex(pattern, m_Options, eolMode), document,
                                 fault))

\* SimpleRegExEngine::Find on a newly constructed engine (the handle is
\* nullptr, so onig_free at line 742 does nothing).  A null pattern or document
\* is modelled as the empty one.
SimpleFind(pattern, document, caseSensitive, eolMode, fault) ==
  IF Len(pattern) = 0 THEN -1
  ELSE IF Len(document) = 0 THEN -1
  ELSE SimpleTry(pattern, document,
                 SetSimpleOptions(eolMode, caseSensitive, TRUE, 0), eolMode, fault)

\* OnigRegExFind: a new SimpleRegExEngine for the call, destroyed at its end.
OnigRegExFind(pchPattern, pchText, caseSensitive, eolMode, fault) ==
  SimpleFind(pchPattern, pchText, caseSensitive, eolMode, fault)

\* ------------------------------------------------------------------------
\* Calls of the functions that keep no state; last holds the arguments and the
\* result of the call
\* ------------------------------------------------------------------------

FindPatterns ==
  {<<>>, Str(<<"a">>), Str(<<"b">>), Str(<<"^">>), Str(<<"(", "a">>)}

FindTexts == {<<>>, Str(<<"a">>), Str(<<"A">>), Str(<<"b", "a">>)}

\* The failures of the matcher library a call can meet, or none.
FindFaults == {"none"} \cup Faults

PureInit == InitOn([eolMode |-> SC_EOL_LF, text |-> <<>>])

\* The record of a call: last alone changes.
Called(record) ==
  /\ last' = record
  /\ UNCHANGED <<m_RegExprStrg, m_CmplOptions, m_RegExpr, m_Region, m_MatchPos,
                 m_MatchLen, m_SubstBuffer, doc, crashed, alive, others,
                 onig_inited>>

\* The record of an OnigRegExFind call (lines 808-816): the temporary
\* SimpleRegExEngine is constructed (onig_initialize, line 687) and, at the
\* return, destroyed (onig_end, line 695).
CalledOnigRegExFind(record) ==
  /\ last' = record
  /\ onig_inited' = FALSE
  /\ UNCHANGED <<m_RegExprStrg, m_CmplOptions, m_RegExpr, m_Region, m_MatchPos,
                 m_MatchLen, m_SubstBuffer, doc, crashed, alive, others>>

\* A call of the exported OnigRegExFind.
DoOnigRegExFind ==
  \E pattern \in FindPatterns, text \in FindTexts, caseSensitive \in BOOLEAN,
     fault \in FindFaults :
    CalledOnigRegExFind([eolMode |-> SC_EOL_LF, caseSensitive |-> caseSensitive, text |-> text,
            ret |-> OnigRegExFind(pattern, text, caseSensitive, SC_EOL_LF, fault),
            fault |-> fault, pattern |-> pattern, op |-> "OnigRegExFind"])

\* The auxiliary flag masks of the calls: none, the dot-matches-all bit, another
\* bit, and both.
OptionFlags == {0, SCFIND_DOT_MATCH_ALL, 4, SCFIND_DOT_MATCH_ALL + 4}

\* A call of SetSimpleOptions.
DoSetSimpleOptions ==
  \E eolMode \in {SC_EOL_CRLF, SC_EOL_CR, SC_EOL_LF}, caseSensitive \in BOOLEAN,
     forwardSearch \in BOOLEAN, searchFlags \in OptionFlags :
    Called([eolMode |-> eolMode, caseSensitive |-> caseSensitive,
            forwardSearch |-> forwardSearch, searchFlags |-> searchFlags,
            ret |-> SetSimpleOptions(eolMode, caseSensitive, forwardSearch,
                                     searchFlags),
            op |-> "SetSimpleOptions"])

\* Patterns with dots at top level, inside a character class and after a
\* backslash, and without dots.
TranslatePatterns ==
  {<<>>, Str(<<"a">>), Str(<<".">>), Str(<<".", ".">>), Str(<<"a", ".", "b">>),
   Str(<<"[", ".", "]">>), Str(<<"\\", ".">>), Str(<<"\\", "b">>)}

\* A call of translateRegExpr.
DoTranslate ==
  \E regExprStr \in TranslatePatterns, wholeWord \in BOOLEAN, wordStart \in BOOLEAN :
    Called([regExprStr |-> regExprStr, wholeWord |-> wholeWord,
            wordStart |-> wordStart,
            ret |-> translateRegExpr(regExprStr, wholeWord, wordStart),
            op |-> "translateRegExpr"])

\* The bytes that follow the backslash of the two-byte templates.
EscapedBytes ==
  {Ord("a"), Ord("b"), Ord("f"), Ord("n"), Ord("r"), Ord("t"), Ord("v"),
   Ord("1"), Ord("9"), Ord("0"), Ord("\\"), Ord("w"), Ord("c"), Ord("x"), Ord("u")}

\* Templates with a hexadecimal escape followed by further bytes.
HexTemplates ==
  {Str(<<"\\", "x", "4", "1", "B">>), Str(<<"\\", "u", "0", "0", "4", "1", "B">>),
   Str(<<"\\", "x", "4", "1">>), Str(<<"\\", "x", "y", "s">>),
   Str(<<"\\", "u", "y", "s">>), Str(<<"a", "\\", "x", "4", "1", "B", "c">>)}

ReplTemplates == {<<Ord("\\"), b>> : b \in EscapedBytes} \cup HexTemplates

\* A call of convertReplExpr.
DoConvertReplExpr ==
  \E replStr \in ReplTemplates :
    Called([ret |-> convertReplExpr(replStr), replStr |-> replStr,
            op |-> "convertReplExpr"])

PureNext ==
  DoOnigRegExFind \/ DoSetSimpleOptions \/ DoTranslate \/ DoConvertReplExpr

PureSpec == PureInit /\ [][PureNext]_vars

\* The pattern of the recorded call c, compiled with the options the document
\* search resolves for a forward search, matches somewhere in the text of c.
PatternMatches(c) ==
  /\ PatternValid(c.pattern)
  /\ onig_search(LiveRegex(c.pattern,
                           SetSimpleOptions(c.eolMode, c.caseSensitive, TRUE, 0),
                           c.eolMode),
                 c.text, 0, Len(c.text),
                 SetSimpleOptions(c.eolMode, c.caseSensitive, TRUE, 0)).result >= 0

\* C16: OnigRegExFind returns a match start (>= 0) exactly when the pattern
\* matches the text, -1 exactly when the pattern is valid and does not match,
\* and a negative value other than -1 for an invalid pattern.
C16_OneShotClassification ==
  (last.op = "OnigRegExFind" /\ last.fault = "none") =>
    /\ (last.ret >= 0) <=> PatternMatches(last)
    /\ (last.ret = -1) <=> (PatternValid(last.pattern) /\ ~PatternMatches(last))
    /\ ~PatternValid(last.pattern) => last.ret < -1

\* C17: when onig_new raises an exception inside FindText, the call returns a
\* value other than the invalid-pattern sentinel -2 and leaves the stored
\* pattern text, the stored option bitset, the match position and the match
\* region as they were before the call.
C17_CompileExceptionKeepsState ==
  [][(last'.op = "FindText" /\ last'.fault = "compile_throw" /\ ~crashed')
       => /\ last'.ret # -2
          /\ m_RegExprStrg' = m_RegExprStrg
          /\ m_CmplOptions' = m_CmplOptions
          /\ m_MatchPos' = m_MatchPos
          /\ m_Region' = m_Region]_vars

\* The lower and the upper bound of the range the caller of c asked for.
RequestedLow(c) == IF c.minPos <= c.maxPos THEN c.minPos ELSE c.maxPos

RequestedHigh(c) == IF c.minPos <= c.maxPos THEN c.maxPos ELSE c.minPos

\* C18: in both directions a FindText call that searches sets
\* ONIG_OPTION_NOTBOL exactly when the lower bound of the requested range is
\* above 0 and ONIG_OPTION_NOTEOL exactly when its upper bound is below the
\* document length.
C18_BoundaryOptionsFollowRange ==
  (FindTextReturned /\ last.searched # "none") =>
    /\ HasOpt(last.onigOptions, ONIG_OPTION_NOTBOL) <=> (RequestedLow(last) > 0)
    /\ HasOpt(last.onigOptions, ONIG_OPTION_NOTEOL)
         <=> (RequestedHigh(last) < Len(doc.text))

\* C19: whatever caseSensitive, forwardSearch and searchFlags are, the bitset
\* SetSimpleOptions gives has the extended-syntax, single-line and find-longest
\* bits off and the negate-single-line bit on, the multiline bit on exactly
\* when the dot-matches-all flag is set, the ignore-case bit on exactly when
\* caseSensitive is false, and is the same for the other direction.
C19_ResolvedOptionBits ==
  last.op = "SetSimpleOptions" =>
    /\ ~HasOpt(last.ret, ONIG_OPTION_EXTEND)
    /\ ~HasOpt(last.ret, ONIG_OPTION_SINGLELINE)
    /\ HasOpt(last.ret, ONIG_OPTION_NEGATE_SINGLELINE)
    /\ ~HasOpt(last.ret, ONIG_OPTION_FIND_LONGEST)
    /\ HasOpt(last.ret, ONIG_OPTION_MULTILINE)
         <=> HasOpt(last.searchFlags, SCFIND_DOT_MATCH_ALL)
    /\ HasOpt(last.ret, ONIG_OPTION_IGNORECASE) <=> ~last.caseSensitive
    /\ last.ret = SetSimpleOptions(last.eolMode, last.caseSensitive,
                                   ~last.forwardSearch, last.searchFlags)

\* The text p with every '.' replaced by "\w", byte by byte.
RECURSIVE DotsAsWordChars(_)
DotsAsWordChars(p) ==
  IF p = <<>> THEN <<>>
  ELSE (IF Head(p) = Ord(".") THEN Str(<<"\\", "w">>) ELSE <<Head(p)>>)
         \o DotsAsWordChars(Tail(p))

\* C20: translateRegExpr gives the pattern unchanged, dots kept, when both
\* flags are false; "\b" + P with every '.' replaced by "\w" for wordStart
\* alone; "\b" + P + "\b" with every '.' replaced by "\w" for wholeWord; a
\* '.' inside a character class or after a backslash is replaced like any other.
C20_TextualTranslation ==
  last.op = "translateRegExpr" =>
    last.ret =
      IF last.wholeWord
      THEN Str(<<"\\", "b">>) \o DotsAsWordChars(last.regExprStr) \o Str(<<"\\", "b">>)
      ELSE IF last.wordStart
      THEN Str(<<"\\", "b">>) \o DotsAsWordChars(last.regExprStr)
      ELSE last.regExprStr

C20_Witness ==
  /\ last.op = "translateRegExpr"
  /\ last.wholeWord
  /\ last.regExprStr = Str(<<"[", ".", "]">>)
  /\ last.ret = Str(<<"\\", "b", "[", "\\", "w", "]", "\\", "b">>)

\* ------------------------------------------------------------------------
\* Numbered group references with one and two digits
\* ------------------------------------------------------------------------

\* A pattern with two capture groups (three region entries) and one with ten
\* (eleven region entries); on "ab" group 1 is "a" and the last group "b".
TwoGroups == Str(<<"(", "a", ")", "(", "b", ")">>)

TenGroups ==
  Str(<<"(", "a", ")", "(", ")", "(", ")", "(", ")", "(", ")", "(", ")", "(", ")",
        "(", ")", "(", ")", "(", "b", ")">>)

DigitPatterns == {TwoGroups, TenGroups}

DollarTen == Str(<<"$", "1", "0">>)

BackslashTen == Str(<<"\\", "1", "0">>)

DollarTwelve == Str(<<"$", "1", "2", "x">>)

DollarThirtyFive == Str(<<"$", "3", "5">>)

DollarThree == Str(<<"$", "3", "x">>)

BackslashZeroOne == Str(<<"\\", "0", "1">>)

DigitTemplates ==
  {DollarTen, BackslashTen, DollarTwelve, DollarThirtyFive, DollarThree,
   BackslashZeroOne}

DigitInit == InitOn([eolMode |-> SC_EOL_LF, text |-> Str(<<"a", "b">>)])

\* A caller's FindText call for one of the two patterns.
DoDigitFind ==
  /\ ~crashed
  /\ \E pattern \in DigitPatterns, minPos \in Positions(doc),
        maxPos \in Positions(doc), caseSensitive \in BOOLEAN,
        ub \in UbOutcomes(Engine) :
       FindTextCall(pattern, minPos, maxPos,
                    [caseSensitive |-> caseSensitive, searchFlags |-> 0,
                     wordStart |-> FALSE, word |-> FALSE], "none", ub)

\* A caller's SubstituteByPosition call with one of the templates.
DoDigitTemplate ==
  /\ ~crashed
  /\ \E text \in DigitTemplates, ub \in UbOutcomes(Engine) : SubstituteCall(text, ub)

DigitNext == DoDigitFind \/ DoDigitTemplate

DigitSpec == DigitInit /\ [][DigitNext]_vars

\* The stored match is one of the pattern with ten capture groups.
TenGroupMatch == m_MatchPos >= 0 /\ Len(m_Region) = 11

\* C21: a '$' or '\' followed by two digits is a two-digit group index exactly
\* when the region of the last match has more than 10 entries; otherwise the
\* first digit is the index and the second digit is copied.  An index that is
\* not below the number of entries appends nothing, and the scan goes on after
\* the digits consumed.
C21_TwoDigitGroupIndex ==
  /\ TwoGroupMatch =>
       /\ SubstituteReturned(DollarTen) => Gave(MatchedGroup(1) \o Str(<<"0">>))
       /\ SubstituteReturned(BackslashTen) => Gave(MatchedGroup(1) \o Str(<<"0">>))
       /\ SubstituteReturned(DollarTwelve) => Gave(MatchedGroup(1) \o Str(<<"2", "x">>))
       /\ SubstituteReturned(DollarThirtyFive) => Gave(Str(<<"5">>))
       /\ SubstituteReturned(DollarThree) => Gave(Str(<<"x">>))
       /\ SubstituteReturned(BackslashZeroOne) => Gave(MatchedGroup(0) \o Str(<<"1">>))
  /\ TenGroupMatch =>
       /\ SubstituteReturned(DollarTen) => Gave(MatchedGroup(10))
       /\ SubstituteReturned(BackslashTen) => Gave(MatchedGroup(10))
       /\ SubstituteReturned(DollarTwelve) => Gave(Str(<<"x">>))
       /\ SubstituteReturned(DollarThirtyFive) => Gave(<<>>)
       /\ SubstituteReturned(DollarThree) => Gave(MatchedGroup(3) \o Str(<<"x">>))
       /\ SubstituteReturned(BackslashZeroOne) => Gave(MatchedGroup(1))

C21_Witness ==
  /\ TenGroupMatch /\ SubstituteReturned(DollarTen)
  /\ m_SubstBuffer = Str(<<"b">>)

\* The last call is convertReplExpr of a backslash followed by the byte b.
ConvertedEscape(b) ==
  last.op = "convertReplExpr" /\ last.replStr = <<Ord("\\"), b>>

\* C22: convertReplExpr rewrites backslash + a, b, f, n, r, t, v to the control
\* bytes 7, 8, 12, 10, 13, 9, 11, backslash + digit 1-9 to '$' + the digit,
\* keeps a doubled backslash as two backslashes and passes any other
\* backslash-letter pair through with its backslash.
C22_ControlEscapes ==
  /\ ConvertedEscape(Ord("a")) => last.ret = <<7>>
  /\ ConvertedEscape(Ord("b")) => last.ret = <<8>>
  /\ ConvertedEscape(Ord("f")) => last.ret = <<12>>
  /\ ConvertedEscape(Ord("n")) => last.ret = <<10>>
  /\ ConvertedEscape(Ord("r")) => last.ret = <<13>>
  /\ ConvertedEscape(Ord("t")) => last.ret = <<9>>
  /\ ConvertedEscape(Ord("v")) => last.ret = <<11>>
  /\ ConvertedEscape(Ord("1")) => last.ret = Str(<<"$", "1">>)
  /\ ConvertedEscape(Ord("9")) => last.ret = Str(<<"$", "9">>)
  /\ ConvertedEscape(Ord("\\")) => last.ret = Str(<<"\\", "\\">>)
  /\ ConvertedEscape(Ord("w")) => last.ret = Str(<<"\\", "w">>)
  /\ ConvertedEscape(Ord("c")) => last.ret = Str(<<"\\", "c">>)

\* The last call is convertReplExpr of the template replStr.
Converted(replStr) == last.op = "convertReplExpr" /\ last.replStr = replStr

\* C23: a backslash-x or backslash-u escape consumes the backslash, the letter
\* and the hex digits it decodes only, so the bytes after it appear in the
\* output (backslash x41 followed by 'B' gives "AB"); with no hex digit after
\* the letter, the letter is emitted without its backslash and the byte after
\* it is copied through.
C23_HexEscapeKeepsWhatFollows ==
  /\ Converted(Str(<<"\\", "x", "4", "1", "B">>)) => last.ret = Str(<<"A", "B">>)
  /\ Converted(Str(<<"\\", "u", "0", "0", "4", "1", "B">>)) =>
       last.ret = Str(<<"A", "B">>)
  /\ Converted(Str(<<"\\", "x", "4", "1">>)) => last.ret = Str(<<"A">>)
  /\ Converted(Str(<<"a", "\\", "x", "4", "1", "B", "c">>)) =>
       last.ret = Str(<<"a", "A", "B", "c">>)
  /\ Converted(Str(<<"\\", "x", "y", "s">>)) => last.ret = Str(<<"x", "y", "s">>)
  /\ Converted(Str(<<"\\", "u", "y", "s">>)) => last.ret = Str(<<"u", "y", "s">>)

\* ------------------------------------------------------------------------
\* The lifetime of engine instances
\* ------------------------------------------------------------------------

\* Other engine instances are created up to this number.
MaxOthers == 1

LifePatterns == {Str(<<"a">>), Str(<<"b">>), Str(<<"(", "a">>)}

LifeInit == InitOn([eolMode |-> SC_EOL_LF, text |-> Str(<<"a">>)])

\* A FindText call on the instance: a compilation that succeeds or fails on the
\* pattern's syntax, or a cache hit.
DoLifeFind ==
  /\ alive /\ ~crashed
  /\ \E pattern \in LifePatterns, ub \in UbOutcomes(Engine) :
       FindTextCall(pattern, 0, Len(doc.text), WordFlags(FALSE), "none", ub)

\* A FindText call on the instance during which onig_new raises an exception.
DoLifeFindFault ==
  /\ alive /\ ~crashed
  /\ \E pattern \in LifePatterns, ub \in UbOutcomes(Engine) :
       FindTextCall(pattern, 0, Len(doc.text), WordFlags(FALSE), "compile_throw", ub)

\* ~OnigurumaRegExEngine, lines 141-146: onig_region_free, onig_free of the
\* stored handle and onig_end.  onig_free of a released handle is undefined: ub
\* is what it does.
Destructor(e, ub) ==
  IF e.m_RegExpr.st = "released" /\ ub = "crash"
  THEN Crash(Outcome(e, 0, FALSE, 0, FALSE, e.m_RegExpr.st, "none", NullRegex,
                     <<>>, 0))
  ELSE Outcome([e EXCEPT !.m_Region = EmptyRegion,
                         !.m_RegExpr = AfterFree(e.m_RegExpr)],
               0, FALSE, 0, FALSE, e.m_RegExpr.st, "none", NullRegex, <<>>, 0)

\* The destruction of the instance.
DoDestroy ==
  /\ alive /\ ~crashed
  /\ \E ub \in UbOutcomes(Engine) :
       \E o \in {Destructor(Engine, ub)} :
         /\ SetEngine(o.e)
         /\ last' = CallRecord("~OnigurumaRegExEngine", o, NoRange, "none", <<>>,
                               NoFlags, 0)
         /\ crashed' = o.crash
         /\ alive' = FALSE
         /\ onig_inited' = (o.crash /\ onig_inited)
  /\ UNCHANGED <<doc, others>>

\* OnigurumaRegExEngine::OnigurumaRegExEngine, lines 123-139: a new instance
\* in place of the destroyed one.
DoConstruct ==
  /\ ~alive /\ ~crashed
  /\ SetEngine(NewEngine)
  /\ last' = NoCall
  /\ alive' = TRUE
  /\ onig_inited' = TRUE
  /\ UNCHANGED <<doc, crashed, others>>

\* The construction of another engine instance: onig_initialize (line 137).
DoCreateOther ==
  /\ ~crashed /\ others < MaxOthers
  /\ others' = others + 1
  /\ onig_inited' = TRUE
  /\ UNCHANGED <<m_RegExprStrg, m_CmplOptions, m_RegExpr, m_Region, m_MatchPos,
                 m_MatchLen, m_SubstBuffer, doc, last, crashed, alive>>

\* The destruction of another engine instance (that holds no handle): onig_end
\* (line 145).
DoDestroyOther ==
  /\ ~crashed /\ others > 0
  /\ others' = others - 1
  /\ onig_inited' = FALSE
  /\ UNCHANGED <<m_RegExprStrg, m_CmplOptions, m_RegExpr, m_Region, m_MatchPos,
                 m_MatchLen, m_SubstBuffer, doc, last, crashed, alive>>

\* A call of the exported OnigRegExFind while the process runs.
DoLifeOnigRegExFind ==
  /\ ~crashed
  /\ \E pattern \in {Str(<<"a">>), Str(<<"b">>)} :
       CalledOnigRegExFind(
         [eolMode |-> SC_EOL_LF, caseSensitive |-> TRUE, text |-> Str(<<"a">>),
          ret |-> OnigRegExFind(pattern, Str(<<"a">>), TRUE, SC_EOL_LF, "none"),
          fault |-> "none", pattern |-> pattern, op |-> "OnigRegExFind"])

LifeNext ==
  \/ DoLifeFind
  \/ DoLifeFindFault
  \/ DoDestroy
  \/ DoConstruct
  \/ DoCreateOther
  \/ DoDestroyOther
  \/ DoLifeOnigRegExFind

LifeSpec == LifeInit /\ [][LifeNext]_vars

\* C24: over construction, FindText calls and destruction of one instance the
\* pointer the instance stores is null or a handle it owns, never a released
\* one; onig_free gets no handle that was released before (no double free); a
\* compilation releases the old handle before it acquires the new one; a
\* FindText call that failed to compile leaves the stored handle null; and a
\* destroyed instance owns no handle (no leak).
C24_HandleLifecycle ==
  /\ alive => m_RegExpr.st \in {"null", "live"}
  /\ last.op \in {"FindText", "~OnigurumaRegExEngine"} =>
       last.freed \in {"none", "null", "live"}
  /\ (last.op = "FindText" /\ last.compiled) => last.freed \in {"null", "live"}
  /\ (last.op = "FindText" /\ last.ret = -2) => m_RegExpr.st = "null"
  /\ ~alive => m_RegExpr.st # "live"

\* C26: while the instance exists the matcher library stays initialized,
\* whatever other instances are created and destroyed and whatever calls of
\* OnigRegExFind are made.
C26_LibraryStaysInitialized == (alive /\ ~crashed) => onig_inited

\* ------------------------------------------------------------------------
\* A document whose end-of-line mode changes between calls
\* ------------------------------------------------------------------------

\* The document "a" + CR + "b".
EolText == <<Ord("a"), 13, Ord("b")>>

EolPatterns == {Str(<<"a">>), Str(<<"a", ".">>), Str(<<".", "b">>)}

EolInit == InitOn([eolMode |-> SC_EOL_LF, text |-> EolText])

\* A caller's FindText call.
DoEolFind ==
  /\ ~crashed
  /\ \E pattern \in EolPatterns, minPos \in {0, Len(doc.text)},
        maxPos \in {0, Len(doc.text)}, caseSensitive \in BOOLEAN,
        ub \in UbOutcomes(Engine) :
       FindTextCall(pattern, minPos, maxPos,
                    [caseSensitive |-> caseSensitive, searchFlags |-> 0,
                     wordStart |-> FALSE, word |-> FALSE], "none", ub)

\* The document's end-of-line mode is set to another one (the field FindText
\* reads at line 265).
DoSetEOLMode ==
  /\ ~crashed
  /\ \E eolMode \in {SC_EOL_CRLF, SC_EOL_CR, SC_EOL_LF} \ {doc.eolMode} :
       doc' = [doc EXCEPT !.eolMode = eolMode]
  /\ UNCHANGED <<m_RegExprStrg, m_CmplOptions, m_RegExpr, m_Region, m_MatchPos,
                 m_MatchLen, m_SubstBuffer, last, crashed, alive, others,
                 onig_inited>>

EolNext == DoEolFind \/ DoSetEOLMode

EolSpec == EolInit /\ [][EolNext]_vars

\* C25: a FindText call that invokes onig_search does so with a compiled
\* pattern built with the encoding variant of the document's end-of-line mode
\* at the time of the call, also after the mode changed between two calls with
\* the same pattern and options.
C25_EncodingFollowsEolMode ==
  [][(doc' = doc /\ last'.op = "FindText" /\ last'.searched # "none")
       => m_RegExpr'.enc = doc.eolMode]_vars
====
